---- MODULE Spec2Model ----
(***************************************************************************)
(* The Leptos counter of src/src/lib.rs: one i32 signal owned by Counter,  *)
(* five click handlers that update it, and two reactive views              *)
(* (CounterDisplay, CounterMessage) that are re-rendered from it.          *)
(***************************************************************************)
EXTENDS Integers, Sequences, FiniteSets, TLC

VARIABLES
    count,            \* the value held by the signal `count` / `set_count`
    display_text,     \* text content of the <p> rendered by CounterDisplay
    message_text,     \* text of the <p> rendered by CounterMessage
    message_color,    \* the color put in that <p>'s style
    buttons,          \* the five <button>s rendered by CounterButtons, in order
    pending,          \* render effects notified by the signal and not yet re-run
    overflow_checks,  \* build profile: TRUE = arithmetic overflow panics (dev),
                      \*                FALSE = it wraps modulo 2^32 (release)
    panicked,         \* a handler has trapped on overflow; the module is dead
    start,            \* history: the value the observed run started from
    clicks,           \* history: labels of the buttons whose click was handled
    click_limit,      \* the number of clicks explored in this run
    event,            \* the MouseEvent passed to the handler that ran last
    queue,            \* clicks the host has delivered and not yet dispatched
    delivered         \* history: labels of the buttons clicked, in delivery order

vars == <<count, display_text, message_text, message_color, buttons, pending,
          overflow_checks, panicked, start, clicks, click_limit,
          event, queue, delivered>>

(***************************************************************************)
(* Bounds of the exploration.                                              *)
(***************************************************************************)
MaxClicks == 5
MaxClicksAny == 3
MaxQueue == 2

(***************************************************************************)
(* i32: the type of the signal (signal(0), Fn() -> i32, ReadSignal<i32>).  *)
(* Every intermediate result below stays inside the 32-bit range.          *)
(***************************************************************************)
INT_MAX == 2147483647
INT_MIN == (-2147483647) - 1
HALF == 32768 * 32768         \* 2^30

\* The values a run of SpecAny may start from; each is a value the signal can
\* hold (every i32 is reachable from 0 by clicks).
StartValues ==
    {INT_MIN, (-HALF) - 1, -5, -1, 0, 1, 4, 5, 25, 50, 51, 100, HALF, INT_MAX}

(***************************************************************************)
(* The arithmetic of the five handlers on an i32 `c`.  Each has a          *)
(* predicate telling whether the native operation overflows and the value  *)
(* the wrapping operation stores.                                          *)
(***************************************************************************)
\* *c -= 1
sub_overflows(c) == c = INT_MIN
sub_wrapping(c) == IF c = INT_MIN THEN INT_MAX ELSE c - 1

\* *c += 1
add_overflows(c) == c = INT_MAX
add_wrapping(c) == IF c = INT_MAX THEN INT_MIN ELSE c + 1

\* A doubling written as an addition of the literal 2.
mul_plus_two(c) == IF c >= INT_MAX - 1 THEN c ELSE c + 2

\* An overflow test that also rejects -2^30, whose double is i32::MIN.
mul_overflows_strict(c) == c >= HALF \/ c <= -HALF

\* *c *= 2
mul_overflows(c) == c >= HALF \/ c < -HALF
mul_wrapping(c) ==
    IF c >= HALF THEN ((c - HALF) - HALF) * 2
    ELSE IF c < -HALF THEN ((c + HALF) + HALF) * 2
    ELSE c * 2

\* *c /= 2 : Rust integer division truncates toward zero; a divisor of 2
\* never overflows.
\* (\div rounds toward minus infinity, so a negative c is halved as (c+1) \div 2.)
div_floor(c) == c \div 2
div_wrapping(c) == IF c >= 0 THEN c \div 2 ELSE (c + 1) \div 2

(***************************************************************************)
(* i32::to_string: decimal digits, a leading "-" for negative values.      *)
(* The digits of a negative number are taken without negating it, as       *)
(* -INT_MIN is not an i32.                                                 *)
(***************************************************************************)
Digit(d) ==
    CASE d = 0 -> "0" [] d = 1 -> "1" [] d = 2 -> "2" [] d = 3 -> "3"
      [] d = 4 -> "4" [] d = 5 -> "5" [] d = 6 -> "6" [] d = 7 -> "7"
      [] d = 8 -> "8" [] d = 9 -> "9"

RECURSIVE NatDigits(_)
NatDigits(n) ==
    IF n < 10 THEN Digit(n) ELSE NatDigits(n \div 10) \o Digit(n % 10)

RECURSIVE NegDigits(_)
NegDigits(n) ==
    LET d == (10 - (n % 10)) % 10
        rest == (n + d) \div 10
    IN  IF rest = 0 THEN Digit(d) ELSE NegDigits(rest) \o Digit(d)

\* A formatter that prints the magnitude only.
to_string_unsigned(n) == IF n < 0 THEN NegDigits(n) ELSE NatDigits(n)

to_string(n) == IF n < 0 THEN "-" \o NegDigits(n) ELSE NatDigits(n)

(***************************************************************************)
(* theme and the literals of CounterMessage.  The pictograph bytes that    *)
(* open three of the messages are written here by their code points.       *)
(***************************************************************************)
BRIGHT_RED == "#ff1744"
TEXT_MUTED == "#e57373"
COOL_BLUE == "#6bb6ff"
HIGH_ICON == "<U+F8FF><U+00FC><U+00EE><U+2022>"
NEGATIVE_ICON == "<U+201A><U+00F9><U+00D1><U+00D4><U+220F><U+00E8>"
ZERO_ICON == "<U+F8FF><U+00FC><U+00F2><U+00A5>"
HIGH_LIMIT == 50

(***************************************************************************)
(* CounterDisplay: "Count: " followed by the value the accessor returns.   *)
(***************************************************************************)
CounterDisplay(current) == "Count: " \o to_string(current)

\* The first branch written with >= : 50 itself is reported HIGH.
CounterMessage_inclusive(current) ==
    IF current >= HIGH_LIMIT THEN
        [message |-> HIGH_ICON \o " Count is HIGH! " \o to_string(current)
                        \o " is above 50!",
         color |-> BRIGHT_RED]
    ELSE IF current < 0 THEN
        [message |-> NEGATIVE_ICON \o " Count is NEGATIVE! " \o to_string(current)
                        \o " is below zero!",
         color |-> COOL_BLUE]
    ELSE IF current = 0 THEN
        [message |-> ZERO_ICON \o " Count is ZERO! Reset complete!",
         color |-> TEXT_MUTED]
    ELSE
        [message |-> "Count is normal (1-49)", color |-> TEXT_MUTED]

(***************************************************************************)
(* CounterMessage: the (message, color) pair computed from count.get().    *)
(***************************************************************************)
CounterMessage(current) ==
    IF current > HIGH_LIMIT THEN
        [message |-> HIGH_ICON \o " Count is HIGH! " \o to_string(current)
                        \o " is above 50!",
         color |-> BRIGHT_RED]
    ELSE IF current < 0 THEN
        [message |-> NEGATIVE_ICON \o " Count is NEGATIVE! " \o to_string(current)
                        \o " is below zero!",
         color |-> COOL_BLUE]
    ELSE IF current = 0 THEN
        [message |-> ZERO_ICON \o " Count is ZERO! Reset complete!",
         color |-> TEXT_MUTED]
    ELSE
        [message |-> "Count is normal (1-49)", color |-> TEXT_MUTED]

(***************************************************************************)
(* EvilButton and CounterButtons: five buttons in a fixed order, each      *)
(* with its label and the handler passed to its on_click.                  *)
(***************************************************************************)
EvilButton(label, on_click) == [label |-> label, on_click |-> on_click]

\* The last two buttons given each other's handler.
CounterButtons_swapped(on_decrement, on_increment, on_reset, on_multiply, on_divide) ==
    << EvilButton("-1", on_decrement),
       EvilButton("+1", on_increment),
       EvilButton("Reset", on_reset),
       EvilButton("*2", on_divide),
       EvilButton("/2", on_multiply) >>

CounterButtons(on_decrement, on_increment, on_reset, on_multiply, on_divide) ==
    << EvilButton("-1", on_decrement),
       EvilButton("+1", on_increment),
       EvilButton("Reset", on_reset),
       EvilButton("*2", on_multiply),
       EvilButton("/2", on_divide) >>

\* A view! that passes the decrement and increment handlers crosswise.
CounterView_crossed ==
    CounterButtons("handle_increment", "handle_decrement", "handle_reset",
                   "handle_multiply", "handle_divide")

\* Counter's view!: the handlers boxed into CounterButtons' props.
CounterView ==
    CounterButtons("handle_decrement", "handle_increment", "handle_reset",
                   "handle_multiply", "handle_divide")

\* The two render effects subscribed to the signal: the closure in
\* CounterDisplay's <span> and the closure of CounterMessage.
Effects == {"display", "message"}

(***************************************************************************)
(* Counter(): the signal is created with `initial`, the tree is rendered   *)
(* once from it.  The program creates it with signal(0).                   *)
(***************************************************************************)
Counter(initial, limit) ==
    /\ count = initial
    /\ display_text = CounterDisplay(initial)
    /\ message_text = CounterMessage(initial).message
    /\ message_color = CounterMessage(initial).color
    /\ buttons = CounterView
    /\ pending = {}
    /\ overflow_checks \in BOOLEAN
    /\ panicked = FALSE
    /\ start = initial
    /\ clicks = << >>
    /\ click_limit = limit
    /\ event = [detail |-> 0]
    /\ queue = << >>
    /\ delivered = << >>

\* A counter created with signal(32).
Init_thirty_two == Counter(32, MaxClicks)

Init == Counter(0, MaxClicks)

\* The same program, explored for fewer clicks.
InitShort == Counter(0, MaxClicksAny)

\* A counter observed from a value it has been brought to earlier.
InitAny == \E v \in StartValues : Counter(v, MaxClicksAny)

(***************************************************************************)
(* set_count.update(f) / set_count.set(v): store the new value and notify  *)
(* the subscribed render effects.  With overflow checks on, an overflowing *)
(* operation panics before anything is stored.                             *)
(***************************************************************************)
update(overflows, value) ==
    IF overflow_checks /\ overflows
    THEN /\ panicked' = TRUE
         /\ UNCHANGED <<count, pending>>
    ELSE /\ count' = value
         /\ pending' = Effects
         /\ UNCHANGED panicked

\* A decrement whose closure body runs twice.
handle_decrement_twice ==
    update(sub_overflows(count) \/ sub_overflows(sub_wrapping(count)),
           sub_wrapping(sub_wrapping(count)))

handle_decrement == update(sub_overflows(count), sub_wrapping(count))

handle_increment == update(add_overflows(count), add_wrapping(count))

\* A reset that stores 1.
handle_reset_to_one == update(FALSE, 1)

handle_reset == update(FALSE, 0)

handle_multiply == update(mul_overflows(count), mul_wrapping(count))

\* A divide that fails on the value 0.
handle_divide_failing_at_zero == update(count = 0, div_wrapping(count))

handle_divide == update(FALSE, div_wrapping(count))

(***************************************************************************)
(* The contents of a click event the handlers could look at: `detail` is   *)
(* the click count of the MouseEvent (1 single, 2 the second of a double   *)
(* click).                                                                 *)
(***************************************************************************)
MouseEvents == {[detail |-> 1], [detail |-> 2]}

\* An on:click that swallows the second click of a double click.
on_click_debounced(i) ==
    /\ ~panicked
    /\ \E ev \in MouseEvents :
          /\ event' = ev
          /\ IF ev.detail = 1
             THEN \/ buttons[i].on_click = "handle_decrement" /\ handle_decrement
                  \/ buttons[i].on_click = "handle_increment" /\ handle_increment
                  \/ buttons[i].on_click = "handle_reset" /\ handle_reset
                  \/ buttons[i].on_click = "handle_multiply" /\ handle_multiply
                  \/ buttons[i].on_click = "handle_divide" /\ handle_divide
             ELSE UNCHANGED <<count, pending, panicked>>
    /\ clicks' = Append(clicks, buttons[i].label)
    /\ UNCHANGED <<display_text, message_text, message_color, buttons,
                   overflow_checks, start, click_limit>>

(***************************************************************************)
(* EvilButton's on:click=on_click: the i-th button calls the handler bound *)
(* to it, once, with the MouseEvent; every handler ignores the event       *)
(* (|_: MouseEvent|).  A module that has trapped runs no handler.          *)
(***************************************************************************)
on_click(i) ==
    /\ ~panicked
    /\ \E ev \in MouseEvents : event' = ev
    /\ clicks' = Append(clicks, buttons[i].label)
    /\ \/ buttons[i].on_click = "handle_decrement" /\ handle_decrement
       \/ buttons[i].on_click = "handle_increment" /\ handle_increment
       \/ buttons[i].on_click = "handle_reset" /\ handle_reset
       \/ buttons[i].on_click = "handle_multiply" /\ handle_multiply
       \/ buttons[i].on_click = "handle_divide" /\ handle_divide
    /\ UNCHANGED <<display_text, message_text, message_color, buttons,
                   overflow_checks, start, click_limit>>

(***************************************************************************)
(* A click on the i-th button, delivered and handled at once.  Events are  *)
(* dispatched one at a time, after the render effects of the previous one  *)
(* have run.                                                               *)
(***************************************************************************)
Click(i) ==
    /\ pending = {}
    /\ queue = << >>
    /\ Len(clicks) < click_limit
    /\ on_click(i)
    /\ delivered' = Append(delivered, buttons[i].label)
    /\ UNCHANGED queue

(***************************************************************************)
(* The same with the host's event queue made explicit: the user clicks     *)
(* while earlier clicks are still waiting (Deliver), and the event loop    *)
(* takes the oldest waiting click and runs its handler to completion       *)
(* (Dispatch).                                                             *)
(***************************************************************************)
Deliver(i) ==
    /\ Len(delivered) < click_limit
    /\ Len(queue) < MaxQueue
    /\ queue' = Append(queue, i)
    /\ delivered' = Append(delivered, buttons[i].label)
    /\ UNCHANGED <<count, display_text, message_text, message_color, buttons,
                   pending, overflow_checks, panicked, start, clicks,
                   click_limit, event>>

\* A dispatcher that takes the newest waiting click first.
Dispatch_newest_first ==
    /\ queue # << >>
    /\ pending = {}
    /\ on_click(queue[Len(queue)])
    /\ queue' = SubSeq(queue, 1, Len(queue) - 1)
    /\ UNCHANGED delivered

Dispatch ==
    /\ queue # << >>
    /\ pending = {}
    /\ on_click(Head(queue))
    /\ queue' = Tail(queue)
    /\ UNCHANGED delivered

\* A display given the value read once at construction, count.get(), in
\* place of the closure: every re-run shows that frozen value.
RenderDisplay_frozen ==
    /\ "display" \in pending
    /\ display_text' = CounterDisplay(start)
    /\ pending' = pending \ {"display"}
    /\ UNCHANGED <<count, message_text, message_color, buttons, overflow_checks,
                   panicked, start, clicks, click_limit, event, queue, delivered>>

\* The closure `move || count()` of CounterDisplay re-runs.
RenderDisplay ==
    /\ "display" \in pending
    /\ display_text' = CounterDisplay(count)
    /\ pending' = pending \ {"display"}
    /\ UNCHANGED <<count, message_text, message_color, buttons, overflow_checks,
                   panicked, start, clicks, click_limit, event, queue, delivered>>

\* A message closure holding the write half of the signal, which clamps
\* negative values to 0 while rendering.
RenderMessage_clamping ==
    /\ "message" \in pending
    /\ count' = (IF count < 0 THEN 0 ELSE count)
    /\ message_text' = CounterMessage(count').message
    /\ message_color' = CounterMessage(count').color
    /\ pending' = pending \ {"message"}
    /\ UNCHANGED <<display_text, buttons, overflow_checks,
                   panicked, start, clicks, click_limit, event, queue, delivered>>

\* A message closure whose last branch is unreachable!(): it cannot render
\* the values 1..50.
RenderMessage_partial ==
    /\ "message" \in pending
    /\ ~(1 <= count /\ count <= HIGH_LIMIT)
    /\ message_text' = CounterMessage(count).message
    /\ message_color' = CounterMessage(count).color
    /\ pending' = pending \ {"message"}
    /\ UNCHANGED <<count, display_text, buttons, overflow_checks,
                   panicked, start, clicks, click_limit, event, queue, delivered>>

\* The closure of CounterMessage re-runs.
RenderMessage ==
    /\ "message" \in pending
    /\ message_text' = CounterMessage(count).message
    /\ message_color' = CounterMessage(count).color
    /\ pending' = pending \ {"message"}
    /\ UNCHANGED <<count, display_text, buttons, overflow_checks,
                   panicked, start, clicks, click_limit, event, queue, delivered>>

Next ==
    \/ \E i \in 1..Len(buttons) : Click(i)
    \/ RenderDisplay
    \/ RenderMessage

Spec == Init /\ [][Next]_vars

SpecAny == InitAny /\ [][Next]_vars

\* The render effects are tasks the event loop runs once they are scheduled.
SpecLive ==
    /\ InitShort
    /\ [][Next]_vars
    /\ WF_vars(RenderDisplay)
    /\ WF_vars(RenderMessage)

NextQueue ==
    \/ \E i \in 1..Len(buttons) : Deliver(i)
    \/ Dispatch
    \/ RenderDisplay
    \/ RenderMessage

SpecQueue == InitShort /\ [][NextQueue]_vars

(***************************************************************************)
(* Reference arithmetic on the mathematical integers, used to state the    *)
(* properties.  An integer n is written <<q, r>> with n = q * 2^16 + r and *)
(* 0 <= r < 2^16, so results beyond the i32 range can be written down.     *)
(***************************************************************************)
ZBase == 256 * 256
ZOf(c) == <<c \div ZBase, c % ZBase>>
ZInc(z) == IF z[2] = ZBase - 1 THEN <<z[1] + 1, 0>> ELSE <<z[1], z[2] + 1>>
ZDec(z) == IF z[2] = 0 THEN <<z[1] - 1, ZBase - 1>> ELSE <<z[1], z[2] - 1>>
ZDouble(z) == <<2 * z[1] + ((2 * z[2]) \div ZBase), (2 * z[2]) % ZBase>>
ZHalfFloor(z) == <<z[1] \div 2, ((z[1] % 2) * ZBase + z[2]) \div 2>>
\* v / 2 rounded toward zero: floor for v >= 0, floor((v + 1) / 2) for v < 0
ZHalfTrunc(z) == IF z[1] >= 0 THEN ZHalfFloor(z) ELSE ZHalfFloor(ZInc(z))
ZInRange(z) == z[1] >= -32768 /\ z[1] <= 32767

\* The pure function named by a button.
PureOp(label, z) ==
    CASE label = "-1" -> ZDec(z)
      [] label = "+1" -> ZInc(z)
      [] label = "Reset" -> <<0, 0>>
      [] label = "*2" -> ZDouble(z)
      [] label = "/2" -> ZHalfTrunc(z)

\* Left-to-right composition of the pure functions of `ops`, applied to z.
RECURSIVE Compose(_, _)
Compose(z, ops) ==
    IF ops = << >> THEN z
    ELSE Compose(PureOp(Head(ops), z), Tail(ops))

\* No prefix of the clicks takes the mathematical value outside the i32 range.
Representable ==
    \A k \in 0..Len(clicks) : ZInRange(Compose(ZOf(start), SubSeq(clicks, 1, k)))

Last(s) == s[Len(s)]

(***************************************************************************)
(* C1 (as stated): for every starting value and every sequence of clicks,  *)
(* the counter equals the left-to-right composition of the pure functions  *)
(* v-1, v+1, 0, v*2, trunc(v/2) applied to the starting value.             *)
(***************************************************************************)
C1_Original == ZOf(count) = Compose(ZOf(start), clicks)

(***************************************************************************)
(* C1 (amended): the same, for the sequences of clicks in which no         *)
(* intermediate result leaves the i32 range; then no handler panics and    *)
(* the counter equals the composition.  A handler changes the counter and  *)
(* nothing else: the rendered texts and the buttons are as before the      *)
(* click, whatever they were.                                              *)
(***************************************************************************)
C1_Composition ==
    /\ [](Representable => ~panicked /\ ZOf(count) = Compose(ZOf(start), clicks))
    /\ [][clicks' # clicks =>
            /\ UNCHANGED <<display_text, message_text, message_color, buttons>>
            /\ UNCHANGED <<overflow_checks, start>>]_vars

C1_Witness ==
    /\ start = 5
    /\ clicks = <<"*2", "-1", "/2">>
    /\ count = 4

\* C1's overflowing case: a click whose mathematical result is no i32.
C1_OverflowReached == ~Representable

(***************************************************************************)
(* C2: divide replaces v by v/2 rounded toward zero: 1 -> 0, -1 -> 0,      *)
(* 4 -> 2, 5 -> 2; the remainder v - 2*(v/2) has the sign of v and is at   *)
(* most 1 in magnitude; and divide(-v) = -divide(v) wherever -v is an i32. *)
(***************************************************************************)
C2_DivideTruncates ==
    (clicks = <<"/2">>) =>
        /\ ~panicked
        /\ start = 1 => count = 0
        /\ start = -1 => count = 0
        /\ start = 4 => count = 2
        /\ start = 5 => count = 2
        /\ start >= 0 => (start - 2 * count) \in {0, 1}
        /\ start < 0 => (start - 2 * count) \in {-1, 0}
        /\ start # INT_MIN => count = -div_wrapping(-start)

C2_Witness == clicks = <<"/2">> /\ start = -5 /\ count = -2

(***************************************************************************)
(* C3: reset sets the value to 0 from every state, and any number of       *)
(* consecutive resets leaves it at 0.                                      *)
(***************************************************************************)
C3_ResetIdempotent ==
    (clicks # << >> /\ Last(clicks) = "Reset") => (count = 0 /\ ~panicked)

C3_Witness ==
    /\ start = INT_MIN
    /\ clicks = <<"Reset", "Reset">>
    /\ count = 0

(***************************************************************************)
(* The four forms CounterMessage's text can take for the current value,    *)
(* read off the rendered <p>.                                              *)
(***************************************************************************)
HighText(v) == HIGH_ICON \o " Count is HIGH! " \o to_string(v) \o " is above 50!"
NegativeText(v) ==
    NEGATIVE_ICON \o " Count is NEGATIVE! " \o to_string(v) \o " is below zero!"
ZeroText == ZERO_ICON \o " Count is ZERO! Reset complete!"
NormalText == "Count is normal (1-49)"

ShownKinds ==
    {k \in {"HIGH", "NEGATIVE", "ZERO", "normal"} :
        \/ k = "HIGH" /\ message_text = HighText(count)
        \/ k = "NEGATIVE" /\ message_text = NegativeText(count)
        \/ k = "ZERO" /\ message_text = ZeroText
        \/ k = "normal" /\ message_text = NormalText}

\* Both render effects have run for the current value.
Rendered == pending = {}

(***************************************************************************)
(* C4: once rendered, the message is of exactly one of the four kinds:     *)
(* HIGH iff value > 50, NEGATIVE iff value < 0, ZERO iff value = 0, normal *)
(* iff 1 <= value <= 50; so 50 is normal, 51 HIGH, 0 ZERO, -1 NEGATIVE.    *)
(***************************************************************************)
C4_Classification ==
    Rendered =>
        /\ Cardinality(ShownKinds) = 1
        /\ ("HIGH" \in ShownKinds) <=> (count > 50)
        /\ ("NEGATIVE" \in ShownKinds) <=> (count < 0)
        /\ ("ZERO" \in ShownKinds) <=> (count = 0)
        /\ ("normal" \in ShownKinds) <=> (1 <= count /\ count <= 50)
        /\ count = 50 => message_text = NormalText
        /\ count = 51 => message_text = HighText(51)
        /\ count = 0 => message_text = ZeroText
        /\ count = -1 => message_text = NegativeText(-1)

C4_Witness ==
    /\ Rendered
    /\ clicks = <<"-1">>
    /\ count = 50
    /\ ShownKinds = {"normal"}

(***************************************************************************)
(* C5: after a handler and the render pass it triggers, Display and        *)
(* Message both show the post-mutation value; a view whose effect is not   *)
(* pending never shows another value than the current one.                 *)
(***************************************************************************)
C5_RenderConsistency ==
    /\ "display" \notin pending => display_text = "Count: " \o to_string(count)
    /\ "message" \notin pending =>
          /\ Cardinality(ShownKinds) = 1
          /\ (count > 50) <=> message_text = HighText(count)
          /\ (count < 0) <=> message_text = NegativeText(count)
          /\ (count = 0) <=> message_text = ZeroText

C5_Witness ==
    /\ Rendered
    /\ clicks = <<"+1", "-1", "-1">>
    /\ display_text = "Count: -1"
    /\ message_text = NegativeText(-1)

(***************************************************************************)
(* C6: from the initial value 0, after exactly five clicks on "+1", the    *)
(* Display shows "Count: 5" and the Message "Count is normal (1-49)".      *)
(***************************************************************************)
C6_ScenarioA ==
    (start = 0 /\ clicks = <<"+1", "+1", "+1", "+1", "+1">>) =>
        /\ count = 5
        /\ Rendered =>
              /\ display_text = "Count: 5"
              /\ message_text = "Count is normal (1-49)"

C6_Witness ==
    /\ start = 0
    /\ clicks = <<"+1", "+1", "+1", "+1", "+1">>
    /\ Rendered
    /\ display_text = "Count: 5"

(***************************************************************************)
(* C7: from the initial value 0, after one click on "-1", the value is -1, *)
(* the Display shows "Count: -1" and the Message is the NEGATIVE one with  *)
(* -1 interpolated.                                                        *)
(***************************************************************************)
C7_ScenarioB ==
    (start = 0 /\ clicks = <<"-1">>) =>
        /\ count = -1
        /\ Rendered =>
              /\ display_text = "Count: -1"
              /\ message_text =
                    NEGATIVE_ICON \o " Count is NEGATIVE! -1 is below zero!"

C7_Witness ==
    /\ start = 0
    /\ clicks = <<"-1">>
    /\ Rendered
    /\ message_color = COOL_BLUE

(***************************************************************************)
(* C8: from the value 100, one click on the divide button makes the value  *)
(* 50, and the Message then shows "Count is normal (1-49)".                *)
(***************************************************************************)
C8_ScenarioC ==
    (start = 100 /\ clicks = <<"/2">>) =>
        /\ count = 50
        /\ Rendered => message_text = "Count is normal (1-49)"

C8_Witness ==
    /\ start = 100
    /\ clicks = <<"/2">>
    /\ Rendered
    /\ message_text = "Count is normal (1-49)"

(***************************************************************************)
(* C9: from the value 25, one click on multiply makes the value 50 and a   *)
(* second makes it 100, and the Message is then the HIGH one with 100      *)
(* interpolated; for every value above 50 the HIGH message interpolates    *)
(* the current value.                                                      *)
(***************************************************************************)
C9_ScenarioD ==
    /\ (start = 25 /\ clicks = <<"*2">>) => count = 50
    /\ (start = 25 /\ clicks = <<"*2", "*2">>) =>
          /\ count = 100
          /\ Rendered =>
                message_text = HIGH_ICON \o " Count is HIGH! 100 is above 50!"
    /\ (Rendered /\ count > 50) =>
          message_text = HIGH_ICON \o " Count is HIGH! " \o to_string(count)
                            \o " is above 50!"

C9_Witness ==
    /\ start = 25
    /\ clicks = <<"*2", "*2">>
    /\ Rendered
    /\ message_color = BRIGHT_RED

(***************************************************************************)
(* C10: the labels of the rendered buttons, in order, and what one click   *)
(* on each label does to the values 5 and -5 (which tell the five          *)
(* operations apart).                                                      *)
(***************************************************************************)
Labels == [i \in 1..Len(buttons) |-> buttons[i].label]

Wired(dec, inc, reset, mul, div) ==
    (Len(clicks) = 1 /\ start \in {5, -5}) =>
        /\ clicks[1] = dec => count = start - 1
        /\ clicks[1] = inc => count = start + 1
        /\ clicks[1] = reset => count = 0
        /\ clicks[1] = mul => count = start + start
        /\ clicks[1] = div => count = (IF start = 5 THEN 2 ELSE -2)
        /\ clicks[1] \in {dec, inc, reset, mul, div}

\* C10 (as stated): five buttons labeled "-1", "+1", "Reset", "×2", "÷2" in
\* that order, each wired to the operation of its label.
C10_Original ==
    /\ Labels = <<"-1", "+1", "Reset", "×2", "÷2">>
    /\ Wired("-1", "+1", "Reset", "×2", "÷2")

\* C10 (amended): five buttons labeled "-1", "+1", "Reset", "*2", "/2" in
\* that order; "-1" decrements, "+1" increments, "Reset" resets, "*2"
\* multiplies, "/2" divides, and no button runs another button's handler.
C10_Buttons ==
    /\ Labels = <<"-1", "+1", "Reset", "*2", "/2">>
    /\ Wired("-1", "+1", "Reset", "*2", "/2")

C10_Witness ==
    /\ Labels[4] = "*2"
    /\ start = -5
    /\ clicks = <<"*2">>
    /\ count = -10

(***************************************************************************)
(* What one application of the operation named by `label` makes of the     *)
(* i32 c: the mathematical result, reduced modulo 2^32 into the i32 range. *)
(***************************************************************************)
ZWrap(z) == <<((z[1] + 32768) % ZBase) - 32768, z[2]>>
Applied(label, c) == PureOp(label, ZOf(c))

\* This step handled a click on the button labeled `label`.
Handled(label) == clicks' = Append(clicks, label)
HandledAny == \E i \in 1..Len(buttons) : Handled(buttons[i].label)

QueueLabels == [k \in 1..Len(queue) |-> buttons[queue[k]].label]

C12_Drained ==
    /\ delivered = <<"+1", "*2", "-1">>
    /\ queue = << >>
    /\ count = 1

(***************************************************************************)
(* C13: a Display that is not waiting for its effect shows "Count: "       *)
(* followed by the current value, and whenever the value changes the       *)
(* Display comes to show "Count: " followed by the new value.              *)
(***************************************************************************)
DisplayCurrent ==
    "display" \notin pending /\ display_text = "Count: " \o to_string(count)

C13_DisplayFollows ==
    /\ []("display" \notin pending => DisplayCurrent)
    /\ ("display" \in pending) ~> DisplayCurrent

C13_Witness ==
    /\ "display" \in pending
    /\ count = -2
    /\ display_text = "Count: -1"

(***************************************************************************)
(* C14: the counter changes only in a step that handles a click, and then  *)
(* to the result of that button's operation; a step that re-renders the    *)
(* Display or the Message leaves it unchanged.                             *)
(***************************************************************************)
C14_OnlyHandlersWrite ==
    [][/\ count' # count =>
             /\ HandledAny
             /\ ZOf(count') = ZWrap(Applied(Last(clicks'), count))
       /\ (\/ display_text' # display_text
           \/ message_text' # message_text
           \/ message_color' # message_color
           \/ Cardinality(pending') < Cardinality(pending)) =>
             /\ count' = count
             /\ clicks' = clicks]_vars

C14_Witness ==
    /\ clicks = <<"-1", "-1">>
    /\ Rendered
    /\ count = -2
    /\ message_text = NegativeText(-2)

(***************************************************************************)
(* C15 (as stated): from every i32 value every operation produces a        *)
(* counter value; no operation ends in a panic.                            *)
(***************************************************************************)
C15_Original == ~panicked

(***************************************************************************)
(* C15 (amended): reset and divide are total over i32; decrement,          *)
(* increment and multiply produce a value wherever their result is an i32, *)
(* and where it is not they wrap modulo 2^32 in a build without overflow   *)
(* checks and panic in a build with them.                                  *)
(***************************************************************************)
C15_Totality ==
    /\ Representable => ~panicked
    /\ panicked =>
          /\ overflow_checks
          /\ Last(clicks) \in {"-1", "+1", "*2"}
          /\ ~ZInRange(Compose(ZOf(start), clicks))
    /\ (~overflow_checks) => ~panicked

C15_Witness ==
    /\ panicked
    /\ start = INT_MAX
    /\ clicks = <<"-1", "+1", "+1">>
    /\ count = INT_MAX

(***************************************************************************)
(* A handled click overflowed: it panicked, or it stored another value     *)
(* than the mathematical result of its operation.                          *)
(***************************************************************************)
Overflowed == panicked' \/ ZOf(count') # Applied(Last(clicks'), count)

\* C16 (as stated): overflow arises only from increment and multiply.
C16_Original ==
    [][(HandledAny /\ Overflowed) => Last(clicks') \in {"+1", "*2"}]_vars

\* C16 (amended): overflow arises only from increment, multiply and
\* decrement (at i32::MIN); divide and reset never leave the i32 range.
C16_OverflowSources ==
    [][(HandledAny /\ Overflowed) => Last(clicks') \in {"+1", "*2", "-1"}]_vars

C16_Witness ==
    /\ start = INT_MIN
    /\ clicks = <<"/2", "*2", "-1">>
    /\ (panicked /\ count = INT_MIN) \/ (~panicked /\ count = INT_MAX)

(***************************************************************************)
(* C17: no terminal and no invalid state.                                  *)
(***************************************************************************)
ButtonsEnabled == \A i \in 1..Len(buttons) : ENABLED Click(i)
MoreToExplore == Len(clicks) < click_limit
Renderable ==
    Rendered =>
        /\ display_text = "Count: " \o to_string(count)
        /\ Cardinality(ShownKinds) = 1

\* C17 (as stated): in every reachable state the buttons stay enabled (a
\* click is taken once the pending renders have run) and the value is
\* renderable.
C17_Original ==
    /\ (MoreToExplore /\ Rendered) => ButtonsEnabled
    /\ MoreToExplore => ENABLED Next
    /\ Renderable

\* C17 (amended): the same in every state in which no handler has panicked;
\* a handler panics only on an overflow in a build with overflow checks.
C17_NoTerminalState ==
    /\ (~panicked /\ MoreToExplore /\ Rendered) => ButtonsEnabled
    /\ (~panicked /\ MoreToExplore) => ENABLED Next
    /\ panicked => (overflow_checks /\ ~Representable)
    /\ Renderable

C17_Witness ==
    /\ ~panicked
    /\ start = INT_MAX
    /\ clicks = <<"+1">>
    /\ count = INT_MIN
    /\ Rendered
    /\ ButtonsEnabled

(***************************************************************************)
(* C18: before any click the value is 0, the Display shows "Count: 0" and  *)
(* the Message is the ZERO one in the muted color.                         *)
(***************************************************************************)
C18_InitialRender ==
    (delivered = << >>) =>
        /\ count = 0
        /\ display_text = "Count: 0"
        /\ message_text = ZERO_ICON \o " Count is ZERO! Reset complete!"
        /\ message_color = "#e57373"
        /\ pending = {}

C18_Witness ==
    /\ delivered = << >>
    /\ clicks = << >>
    /\ message_color = TEXT_MUTED

(***************************************************************************)
(* C19: a divide click on a nonzero value brings it strictly closer to 0   *)
(* without changing its sign; every value reaches 0 within 32 divides;     *)
(* divide, multiply and reset leave 0 at 0.                                *)
(***************************************************************************)
RECURSIVE ZeroWithin(_, _)
ZeroWithin(c, n) ==
    IF c = 0 THEN TRUE
    ELSE IF n = 0 THEN FALSE
    ELSE ZeroWithin(div_wrapping(c), n - 1)

C19_DivideConverges ==
    /\ [](ZeroWithin(count, 32) /\ ZeroWithin(start, 32))
    /\ [][/\ Handled("/2") =>
                /\ ~panicked'
                /\ count > 0 => (0 <= count' /\ count' < count)
                /\ count < 0 => (count < count' /\ count' <= 0)
                /\ count = 0 => count' = 0
          /\ (count = 0 /\ (Handled("*2") \/ Handled("Reset"))) =>
                (count' = 0 /\ ~panicked')]_vars

C19_Witness ==
    /\ start = -5
    /\ clicks = <<"/2", "/2", "/2">>
    /\ count = 0

====
